---------------------------- MODULE Spec2Model ----------------------------
(***************************************************************************)
(* Model of the MCP server (src/llama_mcp_server.py) and of its client     *)
(* (src/llama_client_app.py).                                              *)
(*                                                                         *)
(* Texts are TLA+ strings handled character by character, so the keyword   *)
(* tests and the two regular expressions are computed as Python computes   *)
(* them.  Python values are tagged records:                                *)
(*   a JSON body     [tag |-> "list" | "dict" | "null" | "unparsable", ..] *)
(*   a listing entry [keys, name, path, type]  (keys: the keys present)    *)
(* The two emoji markers of the source are written "[dir] " and "[file] ". *)
(* relevance_score is kept in hundredths (0.95 is 95).                     *)
(***************************************************************************)
EXTENDS Naturals, Sequences, FiniteSets, TLC

(***************************************************************************)
(* Character level helpers                                                 *)
(***************************************************************************)
Ch(s, i) == IF i >= 1 /\ i <= Len(s) THEN SubSeq(s, i, i) ELSE ""

\* str.lower() on one (ASCII) character
LowerMap ==
    [A |-> "a", B |-> "b", C |-> "c", D |-> "d", E |-> "e", F |-> "f", G |-> "g",
     H |-> "h", I |-> "i", J |-> "j", K |-> "k", L |-> "l", M |-> "m", N |-> "n",
     O |-> "o", P |-> "p", Q |-> "q", R |-> "r", S |-> "s", T |-> "t", U |-> "u",
     V |-> "v", W |-> "w", X |-> "x", Y |-> "y", Z |-> "z"]

LowerCh(c) == IF c \in DOMAIN LowerMap THEN LowerMap[c] ELSE c

RECURSIVE LowerFrom(_, _)
LowerFrom(s, i) ==
    IF i > Len(s) THEN "" ELSE LowerCh(Ch(s, i)) \o LowerFrom(s, i + 1)

\* str.lower()
Lower(s) == LowerFrom(s, 1)

\* s[i:].startswith(lit), 1-based
StartsWithAt(s, i, lit) ==
    /\ i >= 1
    /\ i + Len(lit) - 1 <= Len(s)
    /\ SubSeq(s, i, i + Len(lit) - 1) = lit

\* Python's  sub in s
Contains(s, sub) == \E i \in 1..(Len(s) + 1) : StartsWithAt(s, i, sub)

\* the characters \s matches (ASCII)
Whitespace == {" ", "\t", "\n", "\r", "\f"}

\* Last index of the longest run of characters outside `stop` that starts
\* at i (i - 1 when the run is empty): a greedy negated class [^...]+ .
RECURSIVE RunEnd(_, _, _)
RunEnd(s, i, stop) ==
    IF i > Len(s) \/ Ch(s, i) \in stop THEN i - 1 ELSE RunEnd(s, i + 1, stop)

RECURSIVE JoinFrom(_, _, _)
JoinFrom(items, sep, i) ==
    IF i > Len(items) THEN ""
    ELSE IF i = Len(items) THEN items[i]
    ELSE items[i] \o sep \o JoinFrom(items, sep, i + 1)

\* sep.join(items)
Join(items, sep) == JoinFrom(items, sep, 1)

(***************************************************************************)
(* The URL pattern of get_context and generate_response:                   *)
(*   https?://(?:www\.)?github\.com/[^/\s]+/[^/\s]+                        *)
(* UrlMatchEnd(s, i) is the last index of the match that starts at i, or 0 *)
(* when the pattern does not match there.  No flag is passed to re.search, *)
(* so every literal, the host included, is compared as written: the host   *)
(* is looked up in host_text, which for the code is s itself.              *)
(***************************************************************************)
UrlMatchEndOn(s, host_text, i) ==
    IF ~StartsWithAt(s, i, "http") THEN 0
    ELSE LET p1 == IF Ch(s, i + 4) = "s" THEN i + 5 ELSE i + 4
         IN  IF ~StartsWithAt(s, p1, "://") THEN 0
             ELSE LET p2 == p1 + 3
                      p3 == IF StartsWithAt(s, p2, "www.") THEN p2 + 4 ELSE p2
                  IN  IF ~StartsWithAt(host_text, p3, "github.com/") THEN 0
                      ELSE LET o1 == p3 + 11
                               oe == RunEnd(s, o1, Whitespace \cup {"/"})
                               re == RunEnd(s, oe + 2, Whitespace \cup {"/"})
                           IN  IF oe >= o1 /\ Ch(s, oe + 1) = "/" /\ re >= oe + 2
                               THEN re
                               ELSE 0

UrlMatchEnd(s, i) == UrlMatchEndOn(s, s, i)

NoMatch == ""

\* re.search(url_pattern, s): group(0) of the leftmost match, NoMatch if none
\* (a match is never the empty string).
url_search(s) ==
    IF \E i \in 1..Len(s) : UrlMatchEnd(s, i) > 0
    THEN LET i == CHOOSE k \in 1..Len(s) :
                      /\ UrlMatchEnd(s, k) > 0
                      /\ \A j \in 1..(k - 1) : UrlMatchEnd(s, j) = 0
         IN  SubSeq(s, i, UrlMatchEnd(s, i))
    ELSE NoMatch

(***************************************************************************)
(* parse_github_url: re.match of                                           *)
(*   (?:https?://)?(?:www\.)?github\.com/([^/]+)/([^/\.]+)(?:\.git)?       *)
(***************************************************************************)
NoRepo == [ok |-> FALSE, owner |-> "", repo |-> ""]

parse_github_url(url) ==
    LET p1 == IF StartsWithAt(url, 1, "https://") THEN 9
              ELSE IF StartsWithAt(url, 1, "http://") THEN 8
              ELSE 1
        p2 == IF StartsWithAt(url, p1, "www.") THEN p1 + 4 ELSE p1
    IN  IF ~StartsWithAt(url, p2, "github.com/") THEN NoRepo
        ELSE LET o1 == p2 + 11
                 oe == RunEnd(url, o1, {"/"})
                 re == RunEnd(url, oe + 2, {"/", "."})
             IN  IF oe >= o1 /\ Ch(url, oe + 1) = "/" /\ re >= oe + 2
                 THEN [ok |-> TRUE,
                       owner |-> SubSeq(url, o1, oe),
                       repo |-> SubSeq(url, oe + 2, re)]
                 ELSE NoRepo

\* the keyword test of get_context (line 113) and generate_response (87-88)
github_request(q) ==
    LET lowered == Lower(q)
    IN  /\ Contains(lowered, "github")
        /\ (Contains(lowered, "list") \/ Contains(lowered, "files"))

(***************************************************************************)
(* JSON bodies and the answers of the two backends                         *)
(***************************************************************************)
\* one entry of a contents listing; keys are the keys the object carries
Entry(keys, name, path, type) ==
    [keys |-> keys, name |-> name, path |-> path, type |-> type]

ListBody(items) ==
    [tag |-> "list", items |-> items, keys |-> {},
     message |-> "", error |-> "", response |-> ""]

DictBody(keys, message, error, response) ==
    [tag |-> "dict", items |-> <<>>, keys |-> keys,
     message |-> message, error |-> error, response |-> response]

NullBody ==
    [tag |-> "null", items |-> <<>>, keys |-> {},
     message |-> "", error |-> "", response |-> ""]

\* a body response.json() cannot decode
UnparsableBody ==
    [tag |-> "unparsable", items |-> <<>>, keys |-> {},
     message |-> "", error |-> "", response |-> ""]

\* {"error": msg}
ErrorDict(msg) == DictBody({"error"}, "", msg, "")

\* str(e) of the exceptions the try blocks catch
JsonDecodeText == "Expecting value: line 1 column 1 (char 0)"

NoGetText(tag) ==
    IF tag = "list" THEN "'list' object has no attribute 'get'"
    ELSE "'NoneType' object has no attribute 'get'"

\* an answer of requests.get / requests.post: a network failure (exc is its
\* text) or a status with a body
NetError(exc) == [net |-> "error", exc |-> exc, status |-> 0, body |-> NullBody]

Http(status, body) == [net |-> "ok", exc |-> "", status |-> status, body |-> body]

\* list_github_repo_files reporting the status code whatever the body says
list_github_repo_files_status_only(out) ==
    IF out.net = "error" THEN ErrorDict(out.exc)
    ELSE IF out.status = 200
         THEN IF out.body.tag = "unparsable" THEN ErrorDict(JsonDecodeText)
              ELSE out.body
         ELSE ErrorDict("Error: Status code " \o ToString(out.status))

(***************************************************************************)
(* list_github_repo_files: the value returned for backend answer `out`     *)
(***************************************************************************)
list_github_repo_files(out) ==
    IF out.net = "error" THEN ErrorDict(out.exc)
    ELSE IF out.status = 200
         THEN IF out.body.tag = "unparsable" THEN ErrorDict(JsonDecodeText)
              ELSE out.body
         ELSE IF out.body.tag = "unparsable" THEN ErrorDict(JsonDecodeText)
              ELSE IF out.body.tag = "dict"
                   THEN ErrorDict(IF "message" \in out.body.keys
                                  THEN out.body.message
                                  ELSE "Error: Status code " \o ToString(out.status))
                   ELSE ErrorDict(NoGetText(out.body.tag))

\* the URL list_github_repo_files requests (path is its default, "")
contents_url(owner, repo) ==
    "https://api.github.com/repos/" \o owner \o "/" \o repo \o "/contents/"

(***************************************************************************)
(* query_llama: the text returned for backend answer `out`                 *)
(***************************************************************************)
query_llama(out) ==
    IF out.net = "error" THEN "Error: " \o out.exc
    ELSE IF out.status = 200
         THEN IF out.body.tag = "unparsable" THEN "Error: " \o JsonDecodeText
              ELSE IF out.body.tag = "dict"
                   THEN IF "response" \in out.body.keys
                        THEN out.body.response
                        ELSE "No response from model"
                   ELSE "Error: " \o NoGetText(out.body.tag)
         ELSE "Error querying model: " \o ToString(out.status)

\* the prompt both model branches of get_context build
llama_prompt(query_text) ==
    "Please provide relevant information for the following query: \n"
        \o query_text \o "\n\nRespond with factual, helpful information."

(***************************************************************************)
(* Python's  "error" in files_data  and the two rendering loops            *)
(***************************************************************************)
\* "error" in v raises TypeError when v is None
InRaises(fd) == fd.tag = "null"

\* "error" in v: a key test on a dict; on a list an element test, and the
\* elements are objects, never the string "error"
HasError(fd) == fd.tag = "dict" /\ "error" \in fd.keys

\* what the loop iterates over: the items of a list; the keys of a dict are
\* strings, and indexing a string with "type" raises
LoopRaises(fd, needed) ==
    \/ fd.tag = "dict" /\ fd.keys # {}
    \/ fd.tag = "list" /\ \E i \in 1..Len(fd.items) : ~(needed \subseteq fd.items[i].keys)

FolderMarker == "[dir] "

FileMarker == "[file] "

\* get_context, lines 127-136: files are those whose type is "file"
context_items(items) ==
    LET IsFile(e) == e.type = "file"
        IsOther(e) == e.type # "file"
        files == SelectSeq(items, IsFile)
        dirs == SelectSeq(items, IsOther)
        file_list == [i \in 1..Len(files) |-> FileMarker \o files[i].name]
        directory_list == [i \in 1..Len(dirs) |-> FolderMarker \o dirs[i].name]
    IN  directory_list \o file_list

\* list_files, lines 226-229: directories are those whose type is "dir"
list_files_items(items) ==
    [i \in 1..Len(items) |->
        (IF items[i].type = "dir" THEN FolderMarker ELSE FileMarker) \o items[i].path]

(***************************************************************************)
(* The two endpoints.  A handler first decides, from its argument alone,   *)
(* which outbound call it makes (its route); `answer` is what that call    *)
(* gets.  `calls` lists the outbound calls made, each with its answer.     *)
(***************************************************************************)
NoAnswer == [net |-> "none", exc |-> "", status |-> 0, body |-> NullBody]

GithubCall(repo_info, answer) ==
    [backend |-> "github", target |-> contents_url(repo_info.owner, repo_info.repo),
     answer |-> answer]

LlamaCall(query_text, answer) ==
    [backend |-> "llama", target |-> llama_prompt(query_text), answer |-> answer]

Element(content, source, score) ==
    [content |-> content, source |-> source, relevance_score |-> score]

\* a handler that runs to its return statement
ContextResponse(query_text, context_elements, calls) ==
    [raised |-> FALSE, context_elements |-> context_elements,
     metadata |-> [processing_time_ms |-> 150, query |-> query_text],
     calls |-> calls]

\* a handler left by an uncaught exception (FastAPI then answers 500)
ContextRaised(calls) ==
    [raised |-> TRUE, context_elements |-> <<>>,
     metadata |-> [processing_time_ms |-> 0, query |-> ""],
     calls |-> calls]

\* context_route without the keyword test: any GitHub URL is a listing request
context_route_any_url(query_text) ==
    LET github_url == url_search(query_text)
    IN  IF github_url # NoMatch
        THEN LET repo_info == parse_github_url(github_url)
             IN  IF repo_info.ok
                 THEN [kind |-> "github", repo_info |-> repo_info]
                 ELSE [kind |-> "invalid_url", repo_info |-> NoRepo]
        ELSE [kind |-> "llama", repo_info |-> NoRepo]

\* get_context, lines 113-122 and 153-173: the branch taken
context_route(query_text) ==
    IF github_request(query_text)
    THEN LET github_url == url_search(query_text)
         IN  IF github_url # NoMatch
             THEN LET repo_info == parse_github_url(github_url)
                  IN  IF repo_info.ok
                      THEN [kind |-> "github", repo_info |-> repo_info]
                      ELSE [kind |-> "invalid_url", repo_info |-> NoRepo]
             ELSE [kind |-> "llama", repo_info |-> NoRepo]
    ELSE [kind |-> "llama", repo_info |-> NoRepo]

\* github_context with the error answer tagged like a listing
github_context_error_as_success(query_text, repo_info, answer) ==
    LET files_data == list_github_repo_files(answer)
        calls == <<GithubCall(repo_info, answer)>>
    IN  IF InRaises(files_data) THEN ContextRaised(calls)
        ELSE IF ~HasError(files_data)
        THEN IF LoopRaises(files_data, {"type", "name"})
             THEN ContextRaised(calls)
             ELSE ContextResponse(query_text,
                    <<Element("Repository: " \o repo_info.owner \o "/"
                                \o repo_info.repo \o "\n\n"
                                \o "Files and directories:\n"
                                \o Join(context_items(files_data.items), "\n"),
                              "github_api", 95)>>,
                    calls)
        ELSE ContextResponse(query_text,
               <<Element("Error accessing GitHub repository: " \o files_data.error,
                         "github_api", 95)>>,
               calls)

\* github_context asking the model as well when the listing fails
github_context_then_llama(query_text, repo_info, answer) ==
    LET files_data == list_github_repo_files(answer)
        calls == <<GithubCall(repo_info, answer)>>
    IN  IF InRaises(files_data) THEN ContextRaised(calls)
        ELSE IF ~HasError(files_data)
        THEN IF LoopRaises(files_data, {"type", "name"})
             THEN ContextRaised(calls)
             ELSE ContextResponse(query_text,
                    <<Element("Repository: " \o repo_info.owner \o "/"
                                \o repo_info.repo \o "\n\n"
                                \o "Files and directories:\n"
                                \o Join(context_items(files_data.items), "\n"),
                              "github_api", 95)>>,
                    calls)
        ELSE ContextResponse(query_text,
               <<Element("Error accessing GitHub repository: " \o files_data.error,
                         "github_api_error", 90)>>,
               Append(calls, LlamaCall(query_text, NoAnswer)))

\* get_context, lines 123-152: the listing branch
github_context(query_text, repo_info, answer) ==
    LET files_data == list_github_repo_files(answer)
        calls == <<GithubCall(repo_info, answer)>>
    IN  IF InRaises(files_data) THEN ContextRaised(calls)
        ELSE IF ~HasError(files_data)
        THEN IF LoopRaises(files_data, {"type", "name"})
             THEN ContextRaised(calls)
             ELSE ContextResponse(query_text,
                    <<Element("Repository: " \o repo_info.owner \o "/"
                                \o repo_info.repo \o "\n\n"
                                \o "Files and directories:\n"
                                \o Join(context_items(files_data.items), "\n"),
                              "github_api", 95)>>,
                    calls)
        ELSE ContextResponse(query_text,
               <<Element("Error accessing GitHub repository: " \o files_data.error,
                         "github_api_error", 90)>>,
               calls)

\* get_context, lines 153-158
invalid_url_context(query_text) ==
    ContextResponse(query_text,
      <<Element("The GitHub URL provided is not valid. Please provide a URL in the format: https://github.com/owner/repo",
                "github_url_parser", 90)>>,
      <<>>)

\* llama_context decorating the model's text
llama_context_decorated(query_text, answer) ==
    ContextResponse(query_text,
      <<Element("Answer: " \o query_llama(answer), "llama_model", 90)>>,
      <<LlamaCall(query_text, answer)>>)

\* get_context, lines 159-186: both model branches
llama_context(query_text, answer) ==
    ContextResponse(query_text,
      <<Element(query_llama(answer), "llama_model", 90)>>,
      <<LlamaCall(query_text, answer)>>)

context_reply(query_text, route, answer) ==
    IF route.kind = "github" THEN github_context(query_text, route.repo_info, answer)
    ELSE IF route.kind = "invalid_url" THEN invalid_url_context(query_text)
    ELSE llama_context(query_text, answer)

get_context(query_text, answer) ==
    context_reply(query_text, context_route(query_text), answer)

GitHubListFilesResponse(files, repository, owner, success, message, calls) ==
    [raised |-> FALSE, files |-> files, repository |-> repository, owner |-> owner,
     success |-> success, has_message |-> message # "", message |-> message,
     calls |-> calls]

ListFilesRaised(calls) ==
    [raised |-> TRUE, files |-> <<>>, repository |-> "", owner |-> "",
     success |-> FALSE, has_message |-> FALSE, message |-> "", calls |-> calls]

\* list_files, lines 204-236, after parse_github_url
list_files_reply(repo_info, answer) ==
    IF ~repo_info.ok
    THEN GitHubListFilesResponse(<<>>, "", "", FALSE,
           "Invalid GitHub repository URL. Please provide a URL in the format: https://github.com/owner/repo",
           <<>>)
    ELSE LET files_data == list_github_repo_files(answer)
             calls == <<GithubCall(repo_info, answer)>>
         IN  IF InRaises(files_data) THEN ListFilesRaised(calls)
             ELSE IF HasError(files_data)
             THEN GitHubListFilesResponse(<<>>, repo_info.repo, repo_info.owner, FALSE,
                    "Error accessing repository: " \o files_data.error, calls)
             ELSE IF LoopRaises(files_data, {"type", "path"})
             THEN ListFilesRaised(calls)
             ELSE GitHubListFilesResponse(list_files_items(files_data.items),
                    repo_info.repo, repo_info.owner, TRUE, "", calls)

list_files(repo_url, answer) == list_files_reply(parse_github_url(repo_url), answer)

(***************************************************************************)
(* Inputs: query texts, backend answers, transport outcomes                *)
(***************************************************************************)
\* longest contents listing an answer carries
MaxEntries == 2

Phrases ==
    {"list files from ", "tell me about ", "List the FILES of ", "what is a monad "}

UrlTexts ==
    {"", "https://github.com/acme/widget", "https://github.com/acme/widget.git",
     "http://www.github.com/acme/widget/tree/main", "https://GitHub.com/acme/widget",
     "https://github.com/acme/.github", "https://github.com/acme/filesystem",
     "github.com/acme/widget", "https://gitlab.com/acme/widget"}

Queries == {p \o u : p \in Phrases, u \in UrlTexts}

\* what a caller of /github/list-files other than this client may send
RawRepoUrls == UrlTexts \cup {"www.github.com/acme/widget/", "not a url"}

AllKeys == {"name", "path", "type"}

EntryPool ==
    {Entry(AllKeys, "src", "src", "dir"),
     Entry(AllKeys, "readme.md", "readme.md", "file"),
     Entry(AllKeys, "latest", "latest", "symlink"),
     Entry({"name", "path"}, "odd", "odd", "")}

RECURSIVE SeqsUpTo(_, _)
SeqsUpTo(S, n) ==
    IF n = 0 THEN {<<>>}
    ELSE LET shorter == SeqsUpTo(S, n - 1)
         IN  shorter \cup {Append(q, e) : q \in {r \in shorter : Len(r) = n - 1}, e \in S}

Listings == SeqsUpTo(EntryPool, MaxEntries)

GitHubAnswers ==
    {NetError("HTTPSConnectionPool(host='api.github.com', port=443): Max retries exceeded")}
    \cup {Http(200, ListBody(items)) : items \in Listings}
    \cup {Http(200, b) : b \in {UnparsableBody, NullBody,
                                DictBody({}, "", "", ""),
                                DictBody({"message"}, "Moved", "", ""),
                                DictBody({"error"}, "", "upstream said no", "")}}
    \cup {Http(404, b) : b \in {DictBody({"message"}, "Not Found", "", ""),
                                DictBody({}, "", "", ""),
                                UnparsableBody, ListBody(<<>>)}}
    \cup {Http(403, DictBody({"message"}, "API rate limit exceeded", "", ""))}

LlamaAnswers ==
    {NetError("HTTPConnectionPool(host='localhost', port=11434): Max retries exceeded"),
     Http(200, DictBody({"response"}, "", "", "A monad is a monoid.")),
     Http(200, DictBody({"response"}, "", "", "")),
     Http(200, DictBody({}, "", "", "")),
     Http(200, UnparsableBody),
     Http(200, ListBody(<<>>)),
     Http(500, DictBody({"error"}, "", "model not found", ""))}

\* the answers the outbound call of a route may get
ContextAnswers(route) ==
    IF route.kind = "github" THEN GitHubAnswers
    ELSE IF route.kind = "llama" THEN LlamaAnswers
    ELSE {NoAnswer}

ListFilesAnswers(repo_info) == IF repo_info.ok THEN GitHubAnswers ELSE {NoAnswer}

\* how a request of the client to the server ends: answered, or a
\* RequestException before any answer (no connection, the 10 second timeout)
Transports == {"answered", "connect_error"}

\* server_url may name any implementation of the protocol: the context call
\* may also be answered with a ContextResponse that carries no element (this
\* repository's get_context never builds one)
ContextTransports == Transports \cup {"answered_no_elements"}

ConnectErrorText == "HTTPConnectionPool(host='localhost', port=8000): Max retries exceeded"

\* str(e) of the HTTPError raise_for_status raises on the 500 FastAPI sends
\* for a handler that raised
ServerErrorText(path) ==
    "500 Server Error: Internal Server Error for url: http://localhost:8000" \o path

(***************************************************************************)
(* ModelContextClient                                                      *)
(***************************************************************************)
\* the dict ModelContextClient.get_context returns
ContextData(has_error, error, context_elements) ==
    [present |-> TRUE, has_error |-> has_error, error |-> error,
     context_elements |-> context_elements]

NoContextData ==
    [present |-> FALSE, has_error |-> FALSE, error |-> "", context_elements |-> <<>>]

client_get_context(t, out) ==
    IF t = "connect_error" THEN ContextData(TRUE, ConnectErrorText, <<>>)
    ELSE IF t = "answered_no_elements" THEN ContextData(FALSE, "", <<>>)
    ELSE IF out.raised THEN ContextData(TRUE, ServerErrorText("/context"), <<>>)
    ELSE ContextData(FALSE, "", out.context_elements)

\* the dict ModelContextClient.list_github_files returns: the server's JSON,
\* which always carries "success" and "message" (null when the handler set
\* none), or {"error", "success"} after a RequestException
ListResult(has_error, error, success, files, owner, repository, message) ==
    [present |-> TRUE, has_error |-> has_error, error |-> error,
     has_success |-> TRUE, success |-> success, files |-> files,
     owner |-> owner, repository |-> repository,
     has_message |-> ~has_error, message |-> message]

NoListResult ==
    [present |-> FALSE, has_error |-> FALSE, error |-> "",
     has_success |-> FALSE, success |-> FALSE, files |-> <<>>,
     owner |-> "", repository |-> "", has_message |-> FALSE, message |-> ""]

\* {"error": str(e), "success": False}
ListFailure(text) ==
    ListResult(TRUE, text, FALSE, <<>>, "", "", "")

client_list_github_files(t, out) ==
    IF t = "connect_error" THEN ListFailure(ConnectErrorText)
    ELSE IF out.raised THEN ListFailure(ServerErrorText("/github/list-files"))
    ELSE ListResult(FALSE, "", out.success, out.files, out.owner, out.repository,
                    IF out.has_message THEN out.message ELSE "None")

(***************************************************************************)
(* AIAssistant.generate_response, in the pieces between its blocking calls *)
(***************************************************************************)
\* prefers_dedicated without the keyword test
prefers_dedicated_any_url(user_query) == url_search(user_query) # NoMatch

\* line 90: the route taken
prefers_dedicated(user_query) ==
    github_request(user_query) /\ url_search(user_query) # NoMatch

\* lines 95-101: the text built from a successful dedicated result
listing_text(result) ==
    IF Len(result.files) > 0
    THEN "Files in " \o result.owner \o "/" \o result.repository \o ":\n\n"
            \o Join(result.files, "\n")
    ELSE "The repository " \o result.owner \o "/" \o result.repository
            \o " appears to be empty."

\* dedicated_succeeded counting an empty listing as a failure
dedicated_succeeded_nonempty(result) ==
    result.has_success /\ result.success /\ Len(result.files) > 0

\* line 95: result.get("success", False)
dedicated_succeeded(result) == result.has_success /\ result.success

\* lines 104-112: the text after the fallback context call
fallback_text(result, context_data) ==
    IF context_data.has_error
    THEN "Sorry, I couldn't list the GitHub repository files: "
            \o (IF result.has_message THEN result.message ELSE "Unknown error")
    ELSE IF Len(context_data.context_elements) > 0
         THEN context_data.context_elements[1].content
         ELSE "I couldn't retrieve any information about the GitHub repository."

\* lines 115-126: the text for a query sent to the context call only
generic_text(context_data) ==
    IF context_data.has_error
    THEN "Sorry, I couldn't generate a proper response due to: " \o context_data.error
    ELSE IF Len(context_data.context_elements) = 0
         THEN "I don't have enough information to answer that question."
         ELSE context_data.context_elements[1].content

(***************************************************************************)
(* State                                                                   *)
(*   pc            where generate_response stands: "idle" (main waits for  *)
(*                 input), "dedicated", "fallback", "generic" (about to    *)
(*                 make that call), "done" (returned), "served" (the       *)
(*                 server answered a request of another caller)            *)
(*   user_query    the argument of generate_response                       *)
(*   result        what list_github_files returned                         *)
(*   context_data  what get_context (client) returned                      *)
(*   response      the string generate_response returned                   *)
(*   calls         the endpoints this generate_response called, in order   *)
(*   srv           the last request the server handled: endpoint, argument *)
(*                 and what the handler did (ctx or lst)                   *)
(***************************************************************************)
VARIABLES pc, user_query, result, context_data, response, calls, srv

vars == <<pc, user_query, result, context_data, response, calls, srv>>

NoRequest ==
    [endpoint |-> "none", arg |-> "",
     ctx |-> ContextRaised(<<>>), lst |-> ListFilesRaised(<<>>)]

ContextRequest(query_text, out) ==
    [endpoint |-> "context", arg |-> query_text,
     ctx |-> out, lst |-> ListFilesRaised(<<>>)]

ListFilesRequest(repo_url, out) ==
    [endpoint |-> "list_files", arg |-> repo_url,
     ctx |-> ContextRaised(<<>>), lst |-> out]

\* the handler of this server runs when the request is answered by it
Reaches(t) == t = "answered"

Init ==
    /\ pc = "idle"
    /\ user_query = ""
    /\ result = NoListResult
    /\ context_data = NoContextData
    /\ response = ""
    /\ calls = <<>>
    /\ srv = NoRequest

\* main, line 147: generate_response is entered (lines 86-90)
GenerateResponse(q) ==
    /\ pc = "idle"
    /\ user_query' = q
    /\ pc' = IF prefers_dedicated(q) THEN "dedicated" ELSE "generic"
    /\ result' = NoListResult
    /\ context_data' = NoContextData
    /\ response' = ""
    /\ calls' = <<>>
    /\ srv' = NoRequest

\* lines 92-101: the dedicated call and, if it succeeded, the return
DedicatedCall ==
    /\ pc = "dedicated"
    /\ LET github_url == url_search(user_query)
           repo_info == parse_github_url(github_url)
       IN  \E t \in Transports, answer \in ListFilesAnswers(repo_info) :
              LET out == list_files_reply(repo_info, answer)
                  res == client_list_github_files(t, out)
              IN  /\ result' = res
                  /\ srv' = IF Reaches(t) THEN ListFilesRequest(github_url, out) ELSE srv
                  /\ IF dedicated_succeeded(res)
                     THEN response' = listing_text(res) /\ pc' = "done"
                     ELSE response' = response /\ pc' = "fallback"
    /\ calls' = Append(calls, "list_files")
    /\ UNCHANGED <<user_query, context_data>>

\* lines 104-112 and 128: the fallback context call and the return
FallbackContextCall ==
    /\ pc = "fallback"
    /\ LET route == context_route(user_query)
       IN  \E t \in ContextTransports, answer \in ContextAnswers(route) :
              LET out == context_reply(user_query, route, answer)
                  data == client_get_context(t, out)
              IN  /\ context_data' = data
                  /\ srv' = IF Reaches(t) THEN ContextRequest(user_query, out) ELSE srv
                  /\ response' = fallback_text(result, data)
    /\ pc' = "done"
    /\ calls' = Append(calls, "context")
    /\ UNCHANGED <<user_query, result>>

\* lines 115-128: the context call of a query not sent to the dedicated
\* endpoint, and the return
GenericContextCall ==
    /\ pc = "generic"
    /\ LET route == context_route(user_query)
       IN  \E t \in ContextTransports, answer \in ContextAnswers(route) :
              LET out == context_reply(user_query, route, answer)
                  data == client_get_context(t, out)
              IN  /\ context_data' = data
                  /\ srv' = IF Reaches(t) THEN ContextRequest(user_query, out) ELSE srv
                  /\ response' = generic_text(data)
    /\ pc' = "done"
    /\ calls' = Append(calls, "context")
    /\ UNCHANGED <<user_query, result>>

\* main, lines 142-148: the answer is printed and the next input awaited
NextInput ==
    /\ pc = "done"
    /\ pc' = "idle"
    /\ user_query' = ""
    /\ result' = NoListResult
    /\ context_data' = NoContextData
    /\ response' = ""
    /\ calls' = <<>>
    /\ srv' = NoRequest

\* POST /context from any other HTTP caller, while the client waits for input
ServeContext(q) ==
    /\ pc = "idle"
    /\ LET route == context_route(q)
       IN  \E answer \in ContextAnswers(route) :
              srv' = ContextRequest(q, context_reply(q, route, answer))
    /\ pc' = "served"
    /\ UNCHANGED <<user_query, result, context_data, response, calls>>

\* POST /github/list-files from any other HTTP caller
ServeListFiles(repo_url) ==
    /\ pc = "idle"
    /\ LET repo_info == parse_github_url(repo_url)
       IN  \E answer \in ListFilesAnswers(repo_info) :
              srv' = ListFilesRequest(repo_url, list_files_reply(repo_info, answer))
    /\ pc' = "served"
    /\ UNCHANGED <<user_query, result, context_data, response, calls>>

\* the answer has been sent; the server keeps nothing of a request
Served ==
    /\ pc = "served"
    /\ pc' = "idle"
    /\ srv' = NoRequest
    /\ UNCHANGED <<user_query, result, context_data, response, calls>>

Next ==
    \/ \E q \in Queries : GenerateResponse(q)
    \/ DedicatedCall
    \/ FallbackContextCall
    \/ GenericContextCall
    \/ NextInput
    \/ \E q \in Queries : ServeContext(q)
    \/ \E u \in RawRepoUrls : ServeListFiles(u)
    \/ Served

Spec == Init /\ [][Next]_vars

(***************************************************************************)
(* Properties.  What a property says of a request is read from srv, and    *)
(* the conditions of a property are spelled out from the query text and    *)
(* from the backend's answer, not taken from the handler's own route.      *)
(***************************************************************************)
CtxHandled == srv.endpoint = "context"

LstHandled == srv.endpoint = "list_files"

\* listing intent: the keyword test holds and the query holds a URL
ListingIntent(q) == github_request(q) /\ url_search(q) # NoMatch

\* the URL found in the query parses as a repository reference
UrlParses(q) == parse_github_url(url_search(q)).ok

\* the handled request made exactly one call, to `backend`
CalledOnly(made, backend) == Len(made) = 1 /\ made[1].backend = backend

\* the listing call failed: network failure, non-2xx status, malformed body
ListingFails(answer) ==
    \/ answer.net = "error"
    \/ answer.net = "ok" /\ answer.status # 200
    \/ answer.net = "ok" /\ answer.body.tag = "unparsable"

\* the listing call succeeded: 200 and a list of entries that carry `keys`
ListingSucceeds(answer, keys) ==
    /\ answer.net = "ok"
    /\ answer.status = 200
    /\ answer.body.tag = "list"
    /\ \A i \in 1..Len(answer.body.items) : keys \subseteq answer.body.items[i].keys

\* the handler returned exactly one element with this source and score
OneElement(out, source, score) ==
    /\ ~out.raised
    /\ Len(out.context_elements) = 1
    /\ out.context_elements[1].source = source
    /\ out.context_elements[1].relevance_score = score

\* the provenance table with `model_tag` as the tag of the model's answers;
\* strict: every answer of the backend is either a success or a failure
ProvenanceTable(model_tag, answered_ok(_)) ==
    CtxHandled =>
        LET q == srv.arg
            out == srv.ctx
        IN  IF ListingIntent(q) /\ UrlParses(q)
            THEN /\ CalledOnly(out.calls, "github")
                 /\ IF ListingFails(out.calls[1].answer)
                    THEN OneElement(out, "github_api_error", 90)
                    ELSE IF answered_ok(out.calls[1].answer)
                    THEN OneElement(out, "github_api", 95)
                    ELSE \/ out.raised
                         \/ OneElement(out, "github_api", 95)
                         \/ OneElement(out, "github_api_error", 90)
            ELSE IF ListingIntent(q)
            THEN OneElement(out, "github_url_parser", 90)
            ELSE OneElement(out, model_tag, 90)

HasUrlAnyCaseHost(q) == \E i \in 1..Len(q) : UrlMatchEndOn(q, Lower(q), i) > 0

\* C2, as amended: the GitHub resolver is called iff the query holds a URL
\* matching the pattern as written (host in lower case), the keyword test
\* holds and the URL parses; with URL and keywords but a URL that does not
\* parse no resolver is called; every other query goes to the model.
C2_Routing ==
    CtxHandled =>
        LET q == srv.arg
            made == srv.ctx.calls
        IN  IF ListingIntent(q) /\ UrlParses(q) THEN CalledOnly(made, "github")
            ELSE IF ListingIntent(q) THEN made = <<>>
            ELSE CalledOnly(made, "llama")

\* C2, as claimed: GitHub resolver iff URL (host in any case) and keywords,
\* the model resolver otherwise.
C2_AsClaimed ==
    CtxHandled =>
        LET q == srv.arg
            made == srv.ctx.calls
        IN  IF HasUrlAnyCaseHost(q) /\ github_request(q)
            THEN CalledOnly(made, "github")
            ELSE CalledOnly(made, "llama")

C2_Witness ==
    /\ CtxHandled
    /\ srv.arg = "tell me about https://github.com/acme/widget"
    /\ CalledOnly(srv.ctx.calls, "llama")

\* C3: no answer of a backend makes get_context or list_files raise (the
\* client's generate_response has no raising step: every one of its calls
\* ends in a dict, and every dict in a returned string).
C3_NeverRaises ==
    /\ CtxHandled => ~srv.ctx.raised
    /\ LstHandled => ~srv.lst.raised
    /\ result.present => result.has_success

\* the reason a failed listing call reports: the exception's text, the
\* body's "message", or the status code when an object carries none
UpstreamReason(answer) ==
    IF answer.net = "error" THEN answer.exc
    ELSE IF answer.body.tag = "unparsable" THEN JsonDecodeText
    ELSE IF answer.body.tag = "dict"
         THEN IF "message" \in answer.body.keys THEN answer.body.message
              ELSE ToString(answer.status)
    ELSE NoGetText(answer.body.tag)

DedicatedSuccess == result.present /\ result.has_success /\ result.success

DedicatedFailure == result.present /\ ~(result.has_success /\ result.success)

\* the fallback's answer carries an element
HasElements == ~context_data.has_error /\ Len(context_data.context_elements) > 0

\* C5, as amended: when the dedicated call reports failure the context call
\* is issued next and the content of its first element, if it has one, is
\* returned; when it reports success no context call is issued, and the
\* result is the listing, or the "appears to be empty" text for no files.
C5_Fallback ==
    /\ pc = "fallback" => DedicatedFailure /\ calls = <<"list_files">>
    /\ (pc = "done" /\ DedicatedFailure) =>
          /\ calls = <<"list_files", "context">>
          /\ HasElements => response = context_data.context_elements[1].content
    /\ (pc = "done" /\ DedicatedSuccess) =>
          /\ calls = <<"list_files">>
          /\ IF Len(result.files) > 0
             THEN Contains(response, result.files[1])
             ELSE Contains(response, "appears to be empty")

\* C5, as claimed: failure or an empty files list is followed by the
\* context call, whose first element (if any) is returned; the dedicated
\* result is used only for success with files.
C5_AsClaimed ==
    /\ (pc = "done" /\ result.present /\ (~DedicatedSuccess \/ Len(result.files) = 0)) =>
          /\ calls = <<"list_files", "context">>
          /\ HasElements => response = context_data.context_elements[1].content
    /\ (pc = "done" /\ calls = <<"list_files">>) =>
          DedicatedSuccess /\ Len(result.files) > 0

C5_Witness ==
    /\ pc = "done"
    /\ DedicatedSuccess
    /\ Len(result.files) = 0
    /\ calls = <<"list_files">>
    /\ Contains(response, "appears to be empty")

\* the failure the dedicated call reported: the server's message, or the
\* text of the transport error
DedicatedFailureText == IF result.has_error THEN result.error ELSE result.message

\* C6: when the dedicated call failed, for either reason, and the fallback
\* context call reports an error, the result holds the dedicated call's
\* failure text and not the text of the context call's error.
C6_DedicatedMessage ==
    (pc = "done" /\ DedicatedFailure /\ context_data.present /\ context_data.has_error) =>
        /\ Contains(response, DedicatedFailureText)
        /\ ~Contains(response, "due to: ")

\* C7: for a generic query the content of the one element is the text
\* query_llama returned, and generate_response returns that text when its
\* context call succeeds.
C7_RoundTrip ==
    (CtxHandled /\ ~ListingIntent(srv.arg)) =>
        /\ CalledOnly(srv.ctx.calls, "llama")
        /\ ~srv.ctx.raised
        /\ Len(srv.ctx.context_elements) = 1
        /\ srv.ctx.context_elements[1].content = query_llama(srv.ctx.calls[1].answer)
        /\ (pc = "done" /\ ~context_data.has_error) =>
              response = query_llama(srv.ctx.calls[1].answer)

C7_Witness ==
    /\ pc = "done"
    /\ CtxHandled
    /\ calls = <<"context">>
    /\ srv.ctx.calls[1].answer.status = 500
    /\ response = "Error querying model: 500"

\* C8: a handled request made at most one outbound call, so never one to
\* each backend.
C8_OneOutboundCall ==
    /\ CtxHandled => Len(srv.ctx.calls) <= 1
    /\ LstHandled => Len(srv.lst.calls) <= 1
    /\ \A i, j \in 1..Len(srv.ctx.calls) :
          srv.ctx.calls[i].backend = srv.ctx.calls[j].backend
    /\ \A i \in 1..Len(srv.lst.calls) : srv.lst.calls[i].backend = "github"

C8_Witness ==
    /\ CtxHandled
    /\ CalledOnly(srv.ctx.calls, "github")
    /\ ListingFails(srv.ctx.calls[1].answer)

PosOf(s, sub) ==
    IF Contains(s, sub)
    THEN CHOOSE i \in 1..Len(s) :
            /\ StartsWithAt(s, i, sub)
            /\ \A j \in 1..(i - 1) : ~StartsWithAt(s, j, sub)
    ELSE 0

\* C10: for every entry type the two endpoints give an entry the same
\* marker, and in the content block the folder entries come before the file
\* entries, upstream order kept inside each group.
C10_SameKind ==
    (CtxHandled /\ OneElement(srv.ctx, "github_api", 95)
        /\ ListingSucceeds(srv.ctx.calls[1].answer, AllKeys)) =>
        LET items == srv.ctx.calls[1].answer.body.items
            content == srv.ctx.context_elements[1].content
            dedicated == list_files_items(items)
            AsFolder(i) == Contains(content, "\n" \o FolderMarker \o items[i].name)
            AsFile(i) == Contains(content, "\n" \o FileMarker \o items[i].name)
            Line(i) == PosOf(content, "\n" \o (IF AsFolder(i) THEN FolderMarker ELSE FileMarker)
                                         \o items[i].name)
        IN  /\ \A i \in 1..Len(items) :
                 /\ AsFolder(i) # AsFile(i)
                 /\ AsFolder(i) <=> StartsWithAt(dedicated[i], 1, FolderMarker)
            /\ \A i, j \in 1..Len(items) :
                 /\ (AsFolder(i) /\ AsFile(j)) => Line(i) < Line(j)
                 /\ (i < j /\ AsFolder(i) = AsFolder(j) /\ items[i].name # items[j].name)
                       => Line(i) < Line(j)

=============================================================================
